---- MODULE Spec2Model ----
(***************************************************************************)
(* Model of src/app.py: a Streamlit page that initialises Firebase, loads  *)
(* a snapshot of the newest readings of a Firestore collection, renders it *)
(* as a line chart and then polls the collection for newer readings.       *)
(*                                                                         *)
(* A document of the collection is a record [id, timestamp, voltage].  A   *)
(* field holds Absent (the document has no such field), None (the field    *)
(* is null) or a natural number; for the timestamp the number is the       *)
(* instant, and 0 is the one value that is falsy in Python.  The id is the *)
(* Firestore document name: the page never reads it (to_dict drops it),    *)
(* the rows keep it only so that the properties can tell records apart.    *)
(*                                                                         *)
(* src/app.py uses the name COLLECTION without defining it; the model      *)
(* takes it to be the one collection the page reads (the variable store).  *)
(***************************************************************************)
EXTENDS Integers, Sequences, FiniteSets, TLC

\* ------------------------------------------------------------ constants
\* Python's None: a null field, dict.get of a missing key, no watermark.
None == -1
\* The document has no such field.
Absent == -2
\* pandas' NaT, what pd.to_datetime makes of a null.
NaT == -3
\* .limit(20) of the snapshot query.
SnapshotLimit == 20
\* @st.cache_data(ttl=60)
CacheTtl == 60
\* time.sleep(2)
PollInterval == 2

\* ------------------------------------------------------------ bounds
\* Documents the collection may hold before the page is first loaded.
MaxPreload == 21
\* Documents the environment inserts while the model runs.
MaxInserts == 2
\* Time that passes between two looks of a user at the waiting page.
WaitStep == 30

\* Timestamps of the preloaded documents are the even numbers 2, 4, ...
PreloadTs(i) == 2 * i
NewestPreloadTs == PreloadTs(MaxPreload)
\* Sizes of the collection at the first page load: empty, just under the
\* snapshot limit, and MaxPreload.
PreloadSizes == {0, SnapshotLimit - 1, MaxPreload}
Preload(n) == {[id |-> i, timestamp |-> PreloadTs(i), voltage |-> 5] : i \in 1..n}
\* What an inserted document may hold: a missing, null or falsy timestamp,
\* one older than every snapshot (3), the newest preloaded one (again, when
\* MaxPreload documents were preloaded) and a newer one; no voltage or the
\* falsy voltage 0.
InsertTimestamps == {Absent, None, 0, 3, NewestPreloadTs, NewestPreloadTs + 1}
InsertVoltages == {Absent, 0}
\* Watermarks a caller may hand to fetch_new_data.
Watermarks == {None, 0, 3, NewestPreloadTs - 1, NewestPreloadTs,
               NewestPreloadTs + 1}

VARIABLES
    store,       \* the Firestore collection: a set of documents
    secrets,     \* st.secrets["firebase"]: "missing", "invalid" or "valid"
    apps,        \* firebase_admin._apps is non-empty
    initCalls,   \* calls of firebase_admin.initialize_app in this process
    db,          \* firestore.client() has been created
    messages,    \* the st.error / st.warning / exception boxes on the page
    cached,      \* st.cache_data holds a result of fetch_initial_data
    cache,       \* that result
    cacheAge,    \* its age, saturating at CacheTtl
    pc,          \* where the script run is
    clicked,     \* the run was triggered by a click on "Check for Data"
    initial_df,  \* the Snapshot Table of this run
    chart,       \* the rows of st.line_chart, <<>> while none is rendered
    last_ts,     \* the Watermark, None while unset
    new_df,      \* the Delta Table of the latest poll
    polled,      \* fetch_new_data has been called in this run
    slept,       \* time.sleep has been called in this run
    deviceInfo,  \* the "Device Information" section is on the page
    called,      \* direct call of a fetcher: its name, "" if none
    arg,         \* its watermark argument
    ret,         \* the table it returned
    queried      \* whether it issued a query to the store

vars == <<store, secrets, apps, initCalls, db, messages, cached, cache, cacheAge,
          pc, clicked, initial_df, chart, last_ts, new_df, polled, slept,
          deviceInfo, called, arg, ret, queried>>

processVars == <<secrets, apps, initCalls, db>>
cacheVars == <<cached, cache, cacheAge>>
pageVars == <<messages, pc, clicked, initial_df, chart, last_ts, new_df, polled, slept,
              deviceInfo>>
callVars == <<called, arg, ret, queried>>

\* ------------------------------------------------------------ helpers
Min(a, b) == IF a < b THEN a ELSE b

RECURSIVE Reverse(_)
\* df[::-1]
Reverse(s) == IF s = <<>> THEN <<>> ELSE Append(Reverse(Tail(s)), Head(s))

\* dict.get(field): None for a missing key.
Get(v) == IF v = Absent THEN None ELSE v

\* Python truthiness of a field value: None and 0 are falsy.
Truthy(v) == v # None /\ v # 0

\* d.to_dict(), with the document name kept beside it.
ToDict(d) == d

\* Firestore's order of two documents by "timestamp" ascending, ties by
\* document name: a null sorts before every number.
Precedes(d, e) ==
    \/ d.timestamp < e.timestamp
    \/ d.timestamp = e.timestamp /\ d.id < e.id

RECURSIVE OrderAscending(_)
OrderAscending(S) ==
    IF S = {} THEN <<>>
    ELSE LET m == CHOOSE d \in S : \A e \in S \ {d} : Precedes(d, e)
         IN  <<m>> \o OrderAscending(S \ {m})

RECURSIVE OrderDescending(_)
OrderDescending(S) ==
    IF S = {} THEN <<>>
    ELSE LET m == CHOOSE d \in S : \A e \in S \ {d} : Precedes(e, d)
         IN  <<m>> \o OrderDescending(S \ {m})

\* .order_by("timestamp", direction): only documents that have the field.
OrderBy(docs, direction) ==
    LET has == {d \in docs : d.timestamp # Absent}
    IN  IF direction = "DESCENDING" THEN OrderDescending(has)
        ELSE OrderAscending(has)

\* .limit(n)
Limit(s, n) == SubSeq(s, 1, Min(n, Len(s)))

\* Mutant of WhereGreater: ">=" for ">".
WhereGreaterOrEqual(docs, value) ==
    {d \in docs : d.timestamp # Absent /\ d.timestamp # None
                  /\ d.timestamp >= value}

\* .where("timestamp", ">", value): a missing or null field never matches.
WhereGreater(docs, value) ==
    {d \in docs : d.timestamp # Absent /\ d.timestamp # None
                  /\ d.timestamp > value}

\* pd.to_datetime of one timestamp value: the same instant, NaT for a null.
ToDatetime(ts) == IF ts = None \/ ts = Absent THEN NaT ELSE ts

\* df["timestamp"] = pd.to_datetime(df["timestamp"])
ConvertTimestamps(df) ==
    [i \in 1..Len(df) |-> [df[i] EXCEPT !.timestamp = ToDatetime(@)]]

\* ------------------------------------------------------------ fetchers
\* The row filter of fetch_initial_data.
ValidInitialRow(r) == Truthy(Get(r.timestamp)) /\ Get(r.voltage) # None

\* Mutant of ValidNewRow: the voltage is not looked at.
ValidNewRowAnyVoltage(r) == Get(r.timestamp) # None

\* Mutant of ValidNewRow: truthiness for "is not None".
ValidNewRowTruthy(r) == Truthy(Get(r.timestamp)) /\ Truthy(Get(r.voltage))

\* The row filter of fetch_new_data.
ValidNewRow(r) == Get(r.timestamp) # None /\ Get(r.voltage) # None

\* Mutant of LatestDocs: ascending for descending, the oldest documents.
LatestDocsOldest(docs) == Limit(OrderBy(docs, "ASCENDING"), SnapshotLimit)

\* The documents the snapshot query streams.
LatestDocs(docs) == Limit(OrderBy(docs, "DESCENDING"), SnapshotLimit)

\* Mutant of fetch_initial_data: the [::-1] is left out.
fetch_initial_data_unreversed(docs) ==
    LET latest == LatestDocs(docs)
        rows == [i \in 1..Len(latest) |-> ToDict(latest[i])]
    IN  IF latest = <<>> THEN <<>>
        ELSE SelectSeq(rows, ValidInitialRow)

fetch_initial_data(docs) ==
    LET latest == LatestDocs(docs)
        rows == [i \in 1..Len(latest) |-> ToDict(latest[i])]
    IN  IF latest = <<>> THEN <<>>
        ELSE Reverse(SelectSeq(rows, ValidInitialRow))

\* Mutant of NewDocs: the where clause is left out.
NewDocsUnfiltered(docs, last_timestamp) == OrderBy(docs, "ASCENDING")

\* Mutant of NewDocs: descending for ascending.
NewDocsDescending(docs, last_timestamp) ==
    OrderBy(WhereGreater(docs, last_timestamp), "DESCENDING")

\* The documents the incremental query streams.
NewDocs(docs, last_timestamp) ==
    OrderBy(WhereGreater(docs, last_timestamp), "ASCENDING")

\* Mutant of fetch_new_data: no watermark means the whole history.
fetch_new_data_fallback(docs, last_timestamp) ==
    LET found == IF last_timestamp = None THEN OrderBy(docs, "ASCENDING")
                 ELSE NewDocs(docs, last_timestamp)
        rows == [i \in 1..Len(found) |-> ToDict(found[i])]
    IN  SelectSeq(rows, ValidNewRow)

fetch_new_data(docs, last_timestamp) ==
    IF last_timestamp = None THEN <<>>
    ELSE LET found == NewDocs(docs, last_timestamp)
             rows == [i \in 1..Len(found) |-> ToDict(found[i])]
         IN  SelectSeq(rows, ValidNewRow)

\* Whether fetch_new_data reaches its query.
fetch_new_data_queries(last_timestamp) == last_timestamp # None

\* ------------------------------------------------------------ Init
Init ==
    /\ \E n \in PreloadSizes : store = Preload(n)
    /\ secrets \in {"missing", "invalid", "valid"}
    /\ apps = FALSE
    /\ initCalls = 0
    /\ db = FALSE
    /\ messages = {}
    /\ cached = FALSE
    /\ cache = <<>>
    /\ cacheAge = 0
    /\ pc = "start"
    /\ clicked = FALSE
    /\ initial_df = <<>>
    /\ chart = <<>>
    /\ last_ts = None
    /\ new_df = <<>>
    /\ polled = FALSE
    /\ slept = FALSE
    /\ deviceInfo = FALSE
    /\ called = ""
    /\ arg = None
    /\ ret = <<>>
    /\ queried = FALSE

\* ------------------------------------------------------------ environment
\* Some writer adds a document to the collection.
Insert ==
    /\ Cardinality({d \in store : d.id > MaxPreload}) < MaxInserts
    /\ \E ts \in InsertTimestamps, v \in InsertVoltages :
         store' = store \cup
                  {[id |-> MaxPreload + 1
                             + Cardinality({d \in store : d.id > MaxPreload}),
                    timestamp |-> ts, voltage |-> v]}
    /\ UNCHANGED <<processVars, cacheVars, pageVars, callVars>>

\* ------------------------------------------------------------ the page
\* Mutant of InitFirebase: no "if not firebase_admin._apps" guard, every
\* script run initialises the app.
InitFirebaseEveryRun ==
    /\ pc = "start"
    /\ IF secrets = "missing"
       THEN /\ messages' = messages \cup {"credentials not found"}
            /\ pc' = "stopped"
            /\ UNCHANGED <<apps, initCalls, db>>
       ELSE IF secrets = "invalid"
       THEN /\ messages' = messages \cup {"failed to initialize"}
            /\ pc' = "stopped"
            /\ UNCHANGED <<apps, initCalls, db>>
       ELSE /\ apps' = TRUE
            /\ initCalls' = initCalls + 1
            /\ db' = TRUE
            /\ pc' = "ui"
            /\ UNCHANGED messages
    /\ UNCHANGED <<store, secrets, cacheVars, clicked, initial_df, chart,
                   last_ts, new_df, polled, slept, deviceInfo, callVars>>

\* Mutant of InitFirebase: the first handler has no st.stop(), so with no
\* credentials the second try fails as well and reports too.
InitFirebaseNoFirstStop ==
    /\ pc = "start"
    /\ IF ~apps /\ secrets = "missing"
       THEN /\ messages' = messages \cup {"credentials not found",
                                           "failed to initialize"}
            /\ pc' = "stopped"
            /\ UNCHANGED <<apps, initCalls, db>>
       ELSE IF ~apps /\ secrets = "invalid"
       THEN /\ messages' = messages \cup {"failed to initialize"}
            /\ pc' = "stopped"
            /\ UNCHANGED <<apps, initCalls, db>>
       ELSE /\ apps' = TRUE
            /\ initCalls' = IF apps THEN initCalls ELSE initCalls + 1
            /\ db' = TRUE
            /\ pc' = "ui"
            /\ UNCHANGED messages
    /\ UNCHANGED <<store, secrets, cacheVars, clicked, initial_df, chart,
                   last_ts, new_df, polled, slept, deviceInfo, callVars>>

\* init_firebase() and db = firestore.client(), at the top of a script run.
\* st.stop() ends the run: nothing below it is executed.
InitFirebase ==
    /\ pc = "start"
    /\ IF ~apps /\ secrets = "missing"
       THEN /\ messages' = messages \cup {"credentials not found"}
            /\ pc' = "stopped"
            /\ UNCHANGED <<apps, initCalls, db>>
       ELSE IF ~apps /\ secrets = "invalid"
       THEN /\ messages' = messages \cup {"failed to initialize"}
            /\ pc' = "stopped"
            /\ UNCHANGED <<apps, initCalls, db>>
       ELSE /\ apps' = TRUE
            /\ initCalls' = IF apps THEN initCalls ELSE initCalls + 1
            /\ db' = TRUE
            /\ pc' = "ui"
            /\ UNCHANGED messages
    /\ UNCHANGED <<store, secrets, cacheVars, clicked, initial_df, chart,
                   last_ts, new_df, polled, slept, deviceInfo, callVars>>

\* Mutant of RenderPage: an empty snapshot starts the loop all the same.
RenderPageAutoPoll ==
    /\ pc = "ui"
    /\ LET hit == cached /\ cacheAge < CacheTtl
           df == IF hit THEN cache ELSE fetch_initial_data(store)
           shown == ConvertTimestamps(df)
       IN  /\ cached' = TRUE
           /\ cache' = df
           /\ cacheAge' = IF hit THEN cacheAge ELSE 0
           /\ initial_df' = shown
           /\ chart' = shown
           /\ last_ts' = IF df # <<>> THEN shown[Len(shown)].timestamp
                         ELSE None
           /\ pc' = "fetch"
    /\ UNCHANGED <<store, processVars, messages, clicked, deviceInfo, new_df,
                   polled, slept, callVars>>

\* The sidebar block up to the loop: fetch_initial_data through
\* st.cache_data, then the chart and the Watermark, or the warning, the
\* button and the Device Information section.
RenderPage ==
    /\ pc = "ui"
    /\ LET hit == cached /\ cacheAge < CacheTtl
           df == IF hit THEN cache ELSE fetch_initial_data(store)
           shown == ConvertTimestamps(df)
       IN  /\ cached' = TRUE
           /\ cache' = df
           /\ cacheAge' = IF hit THEN cacheAge ELSE 0
           /\ IF df # <<>>
              THEN /\ initial_df' = shown
                   /\ chart' = shown
                   /\ last_ts' = shown[Len(shown)].timestamp
                   /\ pc' = "fetch"
                   /\ UNCHANGED <<messages, clicked, deviceInfo>>
              ELSE /\ initial_df' = df
                   /\ messages' = messages \cup {"no data found"}
                   /\ IF clicked
                      THEN \* st.button is True in the run its click
                           \* started: st.rerun() starts the script again.
                           /\ pc' = "start"
                           /\ clicked' = FALSE
                           /\ UNCHANGED deviceInfo
                      ELSE /\ pc' = "waiting"
                           /\ deviceInfo' = TRUE
                           /\ UNCHANGED clicked
                   /\ UNCHANGED <<chart, last_ts>>
    /\ UNCHANGED <<store, processVars, new_df, polled, slept, callVars>>

\* Mutant of Poll: the Watermark is taken from the Delta Table's last row
\* whether there is one or not, and is lost when there is none.
PollClearsWatermark ==
    /\ pc = "fetch"
    /\ LET df == fetch_new_data(store, last_ts)
           shown == ConvertTimestamps(df)
       IN  /\ new_df' = shown
           /\ chart' = chart \o shown
           /\ last_ts' = IF df # <<>> THEN shown[Len(shown)].timestamp
                         ELSE None
    /\ polled' = TRUE
    /\ pc' = "sleep"
    /\ UNCHANGED <<store, processVars, cacheVars, messages, clicked,
                   initial_df, slept, deviceInfo, callVars>>

\* Mutant of Poll: the loop body has no sleep, the next fetch follows at
\* once.
PollNoSleep ==
    /\ pc = "fetch"
    /\ LET df == fetch_new_data(store, last_ts)
           shown == ConvertTimestamps(df)
       IN  /\ new_df' = shown
           /\ IF df # <<>>
              THEN /\ chart' = chart \o shown
                   /\ last_ts' = shown[Len(shown)].timestamp
              ELSE UNCHANGED <<chart, last_ts>>
    /\ polled' = TRUE
    /\ pc' = "fetch"
    /\ UNCHANGED <<store, processVars, cacheVars, messages, clicked,
                   initial_df, slept, deviceInfo, callVars>>

\* Mutant of Poll: an empty Delta Table ends the loop ("break"), and the
\* script goes on to the Device Information section.
PollBreaksOnEmpty ==
    /\ pc = "fetch"
    /\ LET df == fetch_new_data(store, last_ts)
           shown == ConvertTimestamps(df)
       IN  /\ new_df' = shown
           /\ IF df # <<>>
              THEN /\ chart' = chart \o shown
                   /\ last_ts' = shown[Len(shown)].timestamp
                   /\ pc' = "sleep"
                   /\ UNCHANGED deviceInfo
              ELSE /\ pc' = "done"
                   /\ deviceInfo' = TRUE
                   /\ UNCHANGED <<chart, last_ts>>
    /\ polled' = TRUE
    /\ UNCHANGED <<store, processVars, cacheVars, messages, clicked,
                   initial_df, slept, callVars>>

\* Mutant of Poll: the Watermark is not advanced.
PollKeepsWatermark ==
    /\ pc = "fetch"
    /\ LET df == fetch_new_data(store, last_ts)
           shown == ConvertTimestamps(df)
       IN  /\ new_df' = shown
           /\ IF df # <<>>
              THEN chart' = chart \o shown
              ELSE UNCHANGED chart
    /\ polled' = TRUE
    /\ pc' = "sleep"
    /\ UNCHANGED <<store, processVars, cacheVars, messages, clicked,
                   initial_df, last_ts, slept, deviceInfo, callVars>>

\* One pass of the loop body up to the sleep: fetch_new_data, and for a
\* non-empty Delta Table add_rows and the new Watermark.
Poll ==
    /\ pc = "fetch"
    /\ LET df == fetch_new_data(store, last_ts)
           shown == ConvertTimestamps(df)
       IN  /\ new_df' = shown
           /\ IF df # <<>>
              THEN /\ chart' = chart \o shown
                   /\ last_ts' = shown[Len(shown)].timestamp
              ELSE UNCHANGED <<chart, last_ts>>
    /\ polled' = TRUE
    /\ pc' = "sleep"
    /\ UNCHANGED <<store, processVars, cacheVars, messages, clicked,
                   initial_df, slept, deviceInfo, callVars>>

\* Mutant of PollFail: the loop catches the exception, reports it, skips
\* the cycle and polls again after the sleep.
PollFailCaught ==
    /\ pc = "fetch"
    /\ polled' = TRUE
    /\ messages' = messages \cup {"exception"}
    /\ pc' = "sleep"
    /\ UNCHANGED <<store, processVars, cacheVars, clicked, initial_df, chart,
                   last_ts, new_df, slept, deviceInfo, callVars>>

\* The query of fetch_new_data raises (network or backend failure): nothing
\* catches it, the script run ends with the exception on the page.
PollFail ==
    /\ pc = "fetch"
    /\ polled' = TRUE
    /\ messages' = messages \cup {"exception"}
    /\ pc' = "error"
    /\ UNCHANGED <<store, processVars, cacheVars, clicked, initial_df, chart,
                   last_ts, new_df, slept, deviceInfo, callVars>>

\* time.sleep(2) at the end of the loop body.
Sleep ==
    /\ pc = "sleep"
    /\ slept' = TRUE
    /\ cacheAge' = Min(cacheAge + PollInterval, CacheTtl)
    /\ pc' = "fetch"
    /\ UNCHANGED <<store, processVars, cached, cache, messages, clicked,
                   initial_df, chart, last_ts, new_df, polled, deviceInfo,
                   callVars>>

\* Time passes while the page shows the warning and the button.
Wait ==
    /\ pc = "waiting"
    /\ cacheAge < CacheTtl
    /\ cacheAge' = Min(cacheAge + WaitStep, CacheTtl)
    /\ UNCHANGED <<store, processVars, cached, cache, pageVars, callVars>>

\* The user clicks "Check for Data": Streamlit runs the script again from
\* the top with a cleared page; the process (firebase app, cache) stays.
ClickRetry ==
    /\ pc = "waiting"
    /\ clicked' = TRUE
    /\ pc' = "start"
    /\ messages' = {}
    /\ deviceInfo' = FALSE
    /\ initial_df' = <<>>
    /\ UNCHANGED <<store, processVars, cacheVars, chart, last_ts, new_df,
                   polled, slept, callVars>>

Next ==
    \/ Insert
    \/ InitFirebase
    \/ RenderPage
    \/ Poll
    \/ PollFail
    \/ Sleep
    \/ Wait
    \/ ClickRetry

Spec == Init /\ [][Next]_vars

\* ------------------------------------------------------------ direct calls
\* The two fetchers called on the collection as it is, with any watermark.
CallFetchInitial ==
    /\ called' = "fetch_initial_data"
    /\ arg' = None
    /\ ret' = fetch_initial_data(store)
    /\ queried' = TRUE
    /\ UNCHANGED <<store, processVars, cacheVars, pageVars>>

CallFetchNew ==
    /\ \E w \in Watermarks :
         /\ called' = "fetch_new_data"
         /\ arg' = w
         /\ ret' = fetch_new_data(store, w)
         /\ queried' = fetch_new_data_queries(w)
    /\ UNCHANGED <<store, processVars, cacheVars, pageVars>>

FetcherNext ==
    \/ Insert
    \/ CallFetchInitial
    \/ CallFetchNew

FetcherSpec == Init /\ [][FetcherNext]_vars

\* ------------------------------------------------------------ properties
\* The page is in STREAMING: the chart is rendered and the loop runs.
Streaming == pc \in {"fetch", "sleep"}

\* Both fields of a document are there.
HasBothFields(d) ==
    /\ d.timestamp # Absent /\ d.timestamp # None
    /\ d.voltage # Absent /\ d.voltage # None

\* The document has been rendered in the chart.
Delivered(d) == \E i \in 1..Len(chart) : chart[i].id = d.id

\* No two documents of the collection have the same timestamp.
UniqueTimestamps ==
    \A d, e \in store :
        d.timestamp = e.timestamp /\ d.timestamp # Absent => d = e

\* The timestamps of a table do not decrease from row to row.
Chronological(df) ==
    \A i, j \in 1..Len(df) : i < j => df[i].timestamp <= df[j].timestamp

\* The last row of the snapshot, as rendered.
SnapshotWatermark == initial_df[Len(initial_df)].timestamp

\* C1: at-most-once delivery. Through the snapshot and any number of poll
\* cycles, with insertions in between, no record is rendered in the chart
\* more than once.
C1_AtMostOnce ==
    \A i, j \in 1..Len(chart) : chart[i].id = chart[j].id => i = j

\* C1 witness: timestamps are unique, and the chart holds the snapshot and
\* the rows of two non-empty Delta Tables.
C1_Witness ==
    /\ pc = "sleep"
    /\ UniqueTimestamps
    /\ new_df # <<>>
    /\ Len(chart) > Len(initial_df) + Len(new_df)

C3_WatermarkMonotone ==
    [][/\ last_ts # None => last_ts' # None /\ last_ts' >= last_ts
       /\ pc = "fetch" /\ pc' = "sleep" /\ new_df' # <<>>
              => last_ts' > last_ts]_vars

\* C3 witness: two polls have run, the later one advanced the Watermark
\* beyond the snapshot's.
C3_Witness ==
    /\ pc = "sleep"
    /\ slept
    /\ new_df # <<>>
    /\ last_ts > SnapshotWatermark

\* C4: every row fetch_new_data returns for a watermark w that is not None
\* has a timestamp strictly greater than w.
C4_StrictlyNewer ==
    called = "fetch_new_data" /\ arg # None =>
        \A i \in 1..Len(ret) : ret[i].timestamp > arg

\* C4 witness: the call returned rows while the collection also holds a
\* record at the watermark and one below it.
C4_Witness ==
    /\ called = "fetch_new_data"
    /\ arg # None
    /\ ret # <<>>
    /\ \E d \in store : HasBothFields(d) /\ d.timestamp = arg
    /\ \E d \in store : HasBothFields(d) /\ d.timestamp < arg

\* C5: called with no watermark, fetch_new_data returns an empty table and
\* issues no query, whatever the collection holds.
C5_NoWatermarkNoRows ==
    called = "fetch_new_data" /\ arg = None => ret = <<>> /\ ~queried

\* C5 witness: the call was made with None on a collection that holds
\* records with both fields.
C5_Witness ==
    /\ called = "fetch_new_data"
    /\ arg = None
    /\ \E d \in store : HasBothFields(d)
    /\ Cardinality(store) > SnapshotLimit

\* The records a poll with Watermark w has to deliver.
Due(w) == {d \in store : HasBothFields(d) /\ d.timestamp > w}

\* C6: a poll cycle with Watermark w yields as Delta Table exactly the
\* records with both fields and a timestamp above w that the collection
\* holds at that moment, each once, in ascending order of timestamp, and
\* appends all of them to the chart.
C6_DeltaComplete ==
    [][pc = "fetch" /\ pc' = "sleep" =>
          /\ {new_df'[i].id : i \in 1..Len(new_df')} = {d.id : d \in Due(last_ts)}
          /\ Len(new_df') = Cardinality(Due(last_ts))
          /\ \A i \in 1..Len(new_df') :
                 \E d \in Due(last_ts) :
                     /\ d.id = new_df'[i].id
                     /\ d.timestamp = new_df'[i].timestamp
                     /\ d.voltage = new_df'[i].voltage
          /\ Chronological(new_df')
          /\ chart' = chart \o new_df']_vars

\* C6 witness: the collection gained MaxInserts records newer than the
\* snapshot, with different timestamps, and one poll returned them all.
C6_Witness ==
    /\ pc = "sleep"
    /\ Len(new_df) = MaxInserts
    /\ Len(chart) = Len(initial_df) + MaxInserts
    /\ new_df[1].timestamp < new_df[Len(new_df)].timestamp
    /\ new_df[1].timestamp > SnapshotWatermark

\* C7: the rows fetch_initial_data returns are in chronological order: the
\* timestamps do not decrease from the first row to the last.
C7_SnapshotChronological ==
    called = "fetch_initial_data" => Chronological(ret)

\* C7 witness: a full snapshot of SnapshotLimit rows, the first older than
\* the last, taken from a collection that holds more.
C7_Witness ==
    /\ called = "fetch_initial_data"
    /\ Len(ret) = SnapshotLimit
    /\ ret[1].timestamp < ret[SnapshotLimit].timestamp
    /\ \E d \in store : d.timestamp # Absent /\ d.timestamp < ret[1].timestamp

\* The documents with a timestamp field that sort after the row.
Newer(docs, r) ==
    {d \in docs : d.timestamp # Absent /\ d.timestamp > r.timestamp}

\* C8: fetch_initial_data returns at most SnapshotLimit rows, each a
\* document of the collection, and each among the SnapshotLimit documents
\* with the largest timestamps: fewer than SnapshotLimit documents are newer.
C8_SnapshotBounded ==
    [][called' = "fetch_initial_data" /\ store' = store =>
          /\ Len(ret') <= SnapshotLimit
          /\ \A i \in 1..Len(ret') :
                 /\ ret'[i] \in store
                 /\ Cardinality(Newer(store, ret'[i])) < SnapshotLimit]_vars

\* C8 witness: a call on a collection of more than SnapshotLimit documents
\* with timestamps returned SnapshotLimit rows.
C8_Witness ==
    /\ called = "fetch_initial_data"
    /\ Len(ret) = SnapshotLimit
    /\ Cardinality({d \in store : d.timestamp # Absent}) > SnapshotLimit
    /\ \A i \in 1..Len(ret) : ret[i] \in store

\* The rows of every table the page holds.
PageRows ==
    {initial_df[i] : i \in 1..Len(initial_df)}
        \cup {new_df[i] : i \in 1..Len(new_df)}
        \cup {chart[i] : i \in 1..Len(chart)}

\* C9: a record without the timestamp field or without the voltage field is
\* in no Snapshot Table, no Delta Table and not in the chart, and its
\* timestamp never becomes the Watermark: every row comes from a document
\* with both fields, and so does the Watermark.
C9_MalformedDropped ==
    /\ \A r \in PageRows :
           \E d \in store :
               /\ d.id = r.id
               /\ HasBothFields(d)
               /\ r.timestamp = d.timestamp
               /\ r.voltage = d.voltage
    /\ last_ts # None =>
           \E d \in store : HasBothFields(d) /\ d.timestamp = last_ts

\* C9 witness: a poll delivered a record that was inserted after a record
\* without voltage whose timestamp is newer than the snapshot, so that the
\* query of that poll streamed both.
C9_Witness ==
    /\ pc = "sleep"
    /\ new_df # <<>>
    /\ \E d \in store :
           /\ d.voltage = Absent
           /\ d.timestamp # Absent
           /\ d.timestamp > SnapshotWatermark
           /\ d.id < new_df[1].id

\* C10: an empty Snapshot Table leaves the page in INITIAL. The run that
\* finds it renders no chart, sets no Watermark and does not start the loop;
\* while the page waits there is no chart, no Watermark, no call of
\* fetch_new_data and no exception; and the page leaves the waiting state
\* only by the rerun the user's click starts.
C10_EmptySnapshotWaits ==
    [][/\ pc = "ui" /\ pc' # "ui" /\ initial_df' = <<>> =>
              /\ pc' \in {"waiting", "start"}
              /\ chart' = <<>> /\ last_ts' = None /\ ~polled'
       /\ pc = "waiting" =>
              /\ chart = <<>> /\ last_ts = None /\ ~polled
              /\ initial_df = <<>>
              /\ "exception" \notin messages
              /\ pc' = "waiting" \/ (pc' = "start" /\ clicked')]_vars

\* C10 witness: the page shows the warning and the Device Information
\* section and has been waiting for some time, with no chart.
C10_Witness ==
    /\ pc = "waiting"
    /\ "no data found" \in messages
    /\ deviceInfo
    /\ cacheAge > 0
    /\ ~clicked
    /\ chart = <<>>

\* C11: a poll cycle whose Delta Table is empty changes neither the
\* Watermark nor the rows of the chart, and the loop goes on to its sleep;
\* a poll that finds nothing newer than the Watermark in the collection, as
\* the second of two polls with no insertion in between does, has an empty
\* Delta Table.
C11_EmptyDeltaNoOp ==
    [][pc = "fetch" /\ pc' = "sleep" =>
          /\ new_df' = <<>> =>
                 last_ts' = last_ts /\ chart' = chart /\ initial_df' = initial_df
          /\ Due(last_ts) = {} => new_df' = <<>> /\ last_ts' = last_ts]_vars

\* C11 witness: an earlier poll delivered rows, a later poll found nothing
\* new and the loop is at its sleep.
C11_Witness ==
    /\ pc = "sleep"
    /\ slept
    /\ new_df = <<>>
    /\ Len(chart) > Len(initial_df)
    /\ last_ts = chart[Len(chart)].timestamp

\* C12: the backend is initialised at most once per process: initialize_app
\* is called at most once over all script runs, and never when an app
\* already exists.
C12_InitOnce ==
    [][/\ initCalls' <= 1
       /\ apps => apps' /\ initCalls' = initCalls
       /\ initCalls' # initCalls => ~apps /\ apps']_vars

\* C12 witness: init_firebase has run again in a rerun of the page and the
\* one app is reused.
C12_Witness ==
    /\ pc = "ui"
    /\ clicked
    /\ apps
    /\ db
    /\ initCalls = 1

\* C13: a configuration error is fatal and told apart. Without credentials
\* the page shows "credentials not found" only, with invalid ones "failed to
\* initialize" only; in both cases the run halts: no app, no store client,
\* no fetch, no chart, and the page is never run again.
C13_ConfigErrorFatal ==
    [][/\ secrets' = "missing" /\ pc' # "start" =>
              pc' = "stopped" /\ messages' = {"credentials not found"}
       /\ secrets' = "invalid" /\ pc' # "start" =>
              pc' = "stopped" /\ messages' = {"failed to initialize"}
       /\ secrets' # "valid" =>
              /\ ~apps' /\ initCalls' = 0 /\ ~db'
              /\ ~cached' /\ initial_df' = <<>> /\ chart' = <<>>
              /\ last_ts' = None /\ ~polled' /\ ~deviceInfo'
       /\ pc = "stopped" => pc' = "stopped" /\ messages' = messages]_vars

\* C13 witness: the run has stopped on invalid credentials with the one
\* diagnostic, and the collection has gained a record since.
C13_Witness ==
    /\ pc = "stopped"
    /\ secrets = "invalid"
    /\ messages = {"failed to initialize"}
    /\ \E d \in store : d.id > MaxPreload /\ HasBothFields(d)

\* C14: the step from INITIAL to STREAMING sets the Watermark to the
\* timestamp of the last snapshot row, and in every STREAMING state the
\* Watermark is the timestamp of the last row of the chart.
C14_WatermarkIsLastRow ==
    [][/\ pc = "ui" /\ pc' = "fetch" =>
              /\ initial_df' # <<>>
              /\ chart' = initial_df'
              /\ last_ts' = initial_df'[Len(initial_df')].timestamp
       /\ pc' \in {"fetch", "sleep"} =>
              chart' # <<>> /\ last_ts' = chart'[Len(chart')].timestamp]_vars

\* C14 witness: STREAMING after a poll that appended rows, the Watermark
\* beyond the snapshot's.
C14_Witness ==
    /\ pc = "fetch"
    /\ slept
    /\ Len(chart) > Len(initial_df)
    /\ last_ts # SnapshotWatermark
    /\ last_ts = chart[Len(chart)].timestamp

\* C15: the rows of the chart are in time order after the initial render
\* and after every append, and every appended row is newer than every row
\* rendered before.
C15_ChartChronological ==
    [][/\ Chronological(chart')
       /\ \A i \in 1..Len(chart), j \in (Len(chart) + 1)..Len(chart') :
              chart[i].timestamp < chart'[j].timestamp]_vars

\* C15 witness: at least two rows have been appended to the snapshot, the
\* last of them by the latest poll and strictly newer than the row before.
C15_Witness ==
    /\ pc = "sleep"
    /\ new_df # <<>>
    /\ Len(chart) >= Len(initial_df) + 2
    /\ chart[Len(chart) - 1].timestamp < chart[Len(chart)].timestamp

\* C16 as stated: every call of fetch_new_data comes after a sleep of the
\* same run, none straight after the snapshot render.
C16_SleepBeforeEveryFetch ==
    [][pc = "fetch" /\ pc' \in {"sleep", "error"} => slept]_vars

\* C16 amended: each cycle is fetch, append, sleep. The first call of
\* fetch_new_data follows the snapshot render with no sleep in between;
\* every later call follows a sleep, and the loop is entered at the fetch
\* from the render or from a sleep only.
C16_FetchThenSleep ==
    [][/\ pc = "fetch" /\ store' = store => (polled <=> slept)
       /\ pc = "fetch" /\ pc' # "fetch" => pc' \in {"sleep", "error"}
       /\ pc = "sleep" /\ pc' # "sleep" => pc' = "fetch" /\ slept'
       /\ pc' = "fetch" /\ pc # "fetch" =>
              \/ pc = "ui" /\ ~slept' /\ ~polled'
              \/ pc = "sleep" /\ slept' /\ polled']_vars

\* C16 witness: the loop is about to fetch for the second time, after the
\* sleep that followed a first fetch which appended rows.
C16_Witness ==
    /\ pc = "fetch"
    /\ polled
    /\ slept
    /\ new_df # <<>>
    /\ Len(chart) = Len(initial_df) + Len(new_df)

\* C17: STREAMING has no exit but a fetch that raises. From a STREAMING
\* state the page moves only within the loop or, by an exception of the
\* fetch, to the error state; the Device Information section is never on
\* the page of a run that entered STREAMING; and the loop never blocks or
\* ends: at the fetch a poll cycle can always run and leads to the sleep,
\* at the sleep the sleep can always end and leads to the next fetch.
C17_LoopNeverExits ==
    /\ [][/\ Streaming => pc' \in {"fetch", "sleep", "error"}
          /\ pc' = "error" /\ pc # "error" => pc = "fetch"
          /\ pc = "sleep" /\ pc' # "sleep" => pc' = "fetch"
          /\ pc' \in {"fetch", "sleep", "error"} => ~deviceInfo']_vars
    /\ [](pc = "fetch" => ENABLED Poll)
    /\ [](pc = "sleep" => ENABLED Sleep)

\* C17 witness: the loop is in its third cycle at least: it has slept,
\* appended rows in an earlier cycle and found nothing in the latest.
C17_Witness ==
    /\ pc = "sleep"
    /\ slept
    /\ new_df = <<>>
    /\ Len(chart) > Len(initial_df)
    /\ ~deviceInfo
    /\ cacheAge >= 2 * PollInterval

\* C18: a fetch that raises in a poll cycle ends the polling of the run.
\* The exception reaches the page only together with the end of the loop;
\* the failed cycle appends no row and leaves the Watermark; and after it
\* nothing of the run changes any more: no further fetch, no sleep, no
\* retry.
C18_FetchErrorEndsLoop ==
    /\ [][/\ "exception" \in messages' /\ "exception" \notin messages =>
                 /\ pc = "fetch" /\ pc' = "error"
                 /\ chart' = chart /\ last_ts' = last_ts /\ new_df' = new_df
          /\ "exception" \in messages' => pc' = "error"
          /\ pc = "error" =>
                 /\ pc' = "error"
                 /\ UNCHANGED <<chart, last_ts, new_df, polled, slept,
                                messages, initial_df>>]_vars
    /\ [](pc = "error" => ~ENABLED Poll /\ ~ENABLED Sleep /\ ~ENABLED PollFail)

\* C18 witness: the loop ended by an exception after a poll that appended
\* rows, and the collection holds a record newer than the Watermark that
\* was not fetched.
C18_Witness ==
    /\ pc = "error"
    /\ "exception" \in messages
    /\ Len(chart) > Len(initial_df)
    /\ Due(last_ts) # {}

\* C19 as stated, for a collection of which a snapshot taken now would not
\* be empty: the run a click on "Check for Data" starts enters STREAMING.
C19_RetryMakesProgress ==
    [][pc = "ui" /\ clicked /\ fetch_initial_data(store) # <<>> /\ pc' # "ui"
          => pc' = "fetch"]_vars

\* C20 as stated: a document passes the row filter of fetch_initial_data
\* if and only if it passes the row filter of fetch_new_data.
C20_SameValidity ==
    \A d \in store : ValidInitialRow(ToDict(d)) <=> ValidNewRow(ToDict(d))

====
